---- MODULE Spec2Model ----
(***************************************************************************)
(* Model of trains/utilities/check_updates.py (Version, CheckPackageUpdates)*)
(* Strings are sequences of one-character strings, so that the regular     *)
(* expression, int(), str() and lower() are computed and not assumed.      *)
(***************************************************************************)
EXTENDS Integers, Sequences, FiniteSets, TLC

\* ------------------------------------------------------------------ bounds
\* numbers written in the inputs range over 0..MaxNum
MaxNum == 1
\* release segments of the inputs have 1..MaxRelease components
MaxRelease == 3
\* the package index answers with at most MaxCands release names
MaxCands == 3
\* and with at most MaxTaskCands names when a Task thread asks
MaxTaskCands == 2
MaxRaceCands == 1
MaxDaemons == 2

\* ------------------------------------------------------------ characters
Digits == <<"0", "1", "2", "3", "4", "5", "6", "7", "8", "9">>
LowerAlpha == <<"a", "b", "c", "d", "e", "f", "g", "h", "i", "j", "k", "l", "m",
                "n", "o", "p", "q", "r", "s", "t", "u", "v", "w", "x", "y", "z">>
UpperAlpha == <<"A", "B", "C", "D", "E", "F", "G", "H", "I", "J", "K", "L", "M",
                "N", "O", "P", "Q", "R", "S", "T", "U", "V", "W", "X", "Y", "Z">>

IndexOf(seq, c) == CHOOSE k \in DOMAIN seq : seq[k] = c
InSeq(seq, c) == \E k \in DOMAIN seq : seq[k] = c

IsDigit(c) == InSeq(Digits, c)
DigitVal(c) == IndexOf(Digits, c) - 1
\* str.lower() on one character
Lower(c) == IF InSeq(UpperAlpha, c) THEN LowerAlpha[IndexOf(UpperAlpha, c)] ELSE c
\* [a-z0-9] under re.IGNORECASE
IsAlnum(c) == IsDigit(c) \/ InSeq(LowerAlpha, Lower(c))
\* [-_\.]
IsSep(c) == c \in {"-", "_", "."}
\* \s
IsSpace(c) == c = " "
\* code point order of the characters a lowered local part can hold
Ord(c) == IndexOf(Digits \o LowerAlpha, c)

LowerStr(s) == [k \in DOMAIN s |-> Lower(s[k])]

\* Python's None where a string (a regex group) is expected; no string of
\* characters equals it
None == <<"None">>
\* truthiness of an optional string: None and '' are false
Truthy(x) == x # None /\ x # <<>>
\* x or ''
OrEmpty(x) == IF Truthy(x) THEN x ELSE <<>>

\* s[i:j] with 1-based i and exclusive j
Sub(s, i, j) == SubSeq(s, i, j - 1)

\* int() of a string of digits; int('') raises ValueError (see ParseLetterVersion)
RECURSIVE StrToInt(_)
StrToInt(s) ==
    IF s = <<>> THEN 0
    ELSE 10 * StrToInt(SubSeq(s, 1, Len(s) - 1)) + DigitVal(s[Len(s)])

\* str() of a non-negative integer
RECURSIVE IntToStr(_)
IntToStr(n) ==
    IF n < 10 THEN <<Digits[n + 1]>>
    ELSE IntToStr(n \div 10) \o <<Digits[(n % 10) + 1]>>

\* str.isdigit() on a non-empty ASCII string
IsDigitStr(s) == s # <<>> /\ \A k \in DOMAIN s : IsDigit(s[k])

\* ------------------------------------------------- Version._regex.search
\* first index >= i that holds no white space
RECURSIVE SkipSpaces(_, _)
SkipSpaces(s, i) ==
    IF i <= Len(s) /\ IsSpace(s[i]) THEN SkipSpaces(s, i + 1) ELSE i

\* [0-9]* taken greedily from i: the index after the digits
RECURSIVE DigitsEnd(_, _)
DigitsEnd(s, i) ==
    IF i <= Len(s) /\ IsDigit(s[i]) THEN DigitsEnd(s, i + 1) ELSE i

\* [a-z0-9]* taken greedily from i
RECURSIVE AlnumEnd(_, _)
AlnumEnd(s, i) ==
    IF i <= Len(s) /\ IsAlnum(s[i]) THEN AlnumEnd(s, i + 1) ELSE i

\* a literal keyword at i, letters compared without case
MatchesAt(s, i, lit) ==
    /\ i + Len(lit) - 1 <= Len(s)
    /\ \A k \in DOMAIN lit : Lower(s[i + k - 1]) = lit[k]

HasDigitAt(s, i) == i <= Len(s) /\ IsDigit(s[i])
HasSepAt(s, i) == i <= Len(s) /\ IsSep(s[i])

\* \s*$
EndOk(s, i) == SkipSpaces(s, i) = Len(s) + 1

\* (?:[-_\.][a-z0-9]+)* taken greedily from i
RECURSIVE LocalEnd(_, _)
LocalEnd(s, i) ==
    IF HasSepAt(s, i) /\ i + 1 <= Len(s) /\ IsAlnum(s[i + 1])
    THEN LocalEnd(s, AlnumEnd(s, i + 1))
    ELSE i

\* (?:\+(?P<local>...))? \s* $ : the greedy local part is the only one that
\* can reach the end, since what it gives back is no white space
MatchLocal(s, i) ==
    LET j == LocalEnd(s, AlnumEnd(s, i + 1))
    IN  IF i + 1 <= Len(s) /\ s[i] = "+" /\ IsAlnum(s[i + 1]) /\ EndOk(s, j)
        THEN [ok |-> TRUE, local |-> Sub(s, i + 1, j)]
        ELSE [ok |-> EndOk(s, i), local |-> None]

\* (?P<n>[0-9]+)? : with the digits, then without
NumCands(s, j, l) ==
    IF HasDigitAt(s, j)
    THEN << [pos |-> DigitsEnd(s, j), l |-> l, n |-> Sub(s, j, DigitsEnd(s, j))],
            [pos |-> j, l |-> l, n |-> None] >>
    ELSE << [pos |-> j, l |-> l, n |-> None] >>

\* [-_\.]? before the number: with the separator, then without
Sep2Cands(s, j, l) ==
    IF HasSepAt(s, j) THEN NumCands(s, j + 1, l) \o NumCands(s, j, l)
    ELSE NumCands(s, j, l)

\* the alternatives of a tag group, in the order the pattern lists them
RECURSIVE AltCands(_, _, _)
AltCands(s, j, alts) ==
    IF alts = <<>> THEN <<>>
    ELSE (IF MatchesAt(s, j, Head(alts))
          THEN Sep2Cands(s, j + Len(Head(alts)), Sub(s, j, j + Len(Head(alts))))
          ELSE <<>>) \o AltCands(s, j, Tail(alts))

\* [-_\.]? (tag) [-_\.]? ([0-9]+)? : every way to match it at i, in the
\* order a backtracking matcher tries them
LetterCands(s, i, alts) ==
    IF HasSepAt(s, i) THEN AltCands(s, i + 1, alts) \o AltCands(s, i, alts)
    ELSE AltCands(s, i, alts)

PreTags == << <<"a">>, <<"b">>, <<"c">>, <<"r", "c">>, <<"a", "l", "p", "h", "a">>,
              <<"b", "e", "t", "a">>, <<"p", "r", "e">>,
              <<"p", "r", "e", "v", "i", "e", "w">> >>
PostTags == << <<"p", "o", "s", "t">>, <<"r", "e", "v">>, <<"r">> >>
DevTags == << <<"d", "e", "v">> >>

Skip(i) == [pos |-> i, l |-> None, n |-> None]
Min(S) == CHOOSE x \in S : \A y \in S : x <= y
NoMatch == [ok |-> FALSE]

\* (?P<dev>...)? and what follows it: the first way to match the group
\* (last, leaving it out) after which the rest matches
RECURSIVE TryDev(_, _)
DevThen(c, r, s, rest) ==
    IF r.ok THEN [ok |-> TRUE, dev_l |-> c.l, dev_n |-> c.n, local |-> r.local]
    ELSE TryDev(s, rest)
TryDev(s, cands) ==
    IF cands = <<>> THEN NoMatch
    ELSE DevThen(Head(cands), MatchLocal(s, Head(cands).pos), s, Tail(cands))
MatchDev(s, i) == TryDev(s, LetterCands(s, i, DevTags) \o <<Skip(i)>>)

\* (?P<post>(?:-(?P<post_n1>[0-9]+))|(?:[-_\.]?(?P<post_l>post|rev|r)...))?
ImplicitCands(s, i, j) ==
    IF i <= Len(s) /\ s[i] = "-" /\ j > i + 1
    THEN << [pos |-> j, l |-> None, n1 |-> Sub(s, i + 1, j), n2 |-> None] >>
    ELSE <<>>
TaggedCands(tagged) ==
    [k \in DOMAIN tagged |->
        [pos |-> tagged[k].pos, l |-> tagged[k].l, n1 |-> None, n2 |-> tagged[k].n]]
PostCands(s, i) ==
    ImplicitCands(s, i, DigitsEnd(s, i + 1))
    \o TaggedCands(LetterCands(s, i, PostTags))
    \o << [pos |-> i, l |-> None, n1 |-> None, n2 |-> None] >>

RECURSIVE TryPost(_, _)
PostThen(c, r, s, rest) ==
    IF r.ok
    THEN [ok |-> TRUE, post_l |-> c.l, post_n1 |-> c.n1, post_n2 |-> c.n2,
          dev_l |-> r.dev_l, dev_n |-> r.dev_n, local |-> r.local]
    ELSE TryPost(s, rest)
TryPost(s, cands) ==
    IF cands = <<>> THEN NoMatch
    ELSE PostThen(Head(cands), MatchDev(s, Head(cands).pos), s, Tail(cands))
MatchPost(s, i) == TryPost(s, PostCands(s, i))

\* (?P<pre>...)? and what follows it
RECURSIVE TryPre(_, _)
PreThen(c, r, s, rest) ==
    IF r.ok
    THEN [ok |-> TRUE, pre_l |-> c.l, pre_n |-> c.n,
          post_l |-> r.post_l, post_n1 |-> r.post_n1, post_n2 |-> r.post_n2,
          dev_l |-> r.dev_l, dev_n |-> r.dev_n, local |-> r.local]
    ELSE TryPre(s, rest)
TryPre(s, cands) ==
    IF cands = <<>> THEN NoMatch
    ELSE PreThen(Head(cands), MatchPost(s, Head(cands).pos), s, Tail(cands))
MatchPre(s, i) == TryPre(s, LetterCands(s, i, PreTags) \o <<Skip(i)>>)

\* (?:\.[0-9]+)* taken greedily from i
RECURSIVE ReleaseEnd(_, _)
ReleaseEnd(s, i) ==
    IF i <= Len(s) /\ s[i] = "." /\ HasDigitAt(s, i + 1)
    THEN ReleaseEnd(s, DigitsEnd(s, i + 1))
    ELSE i

\* the groups of a match
Groups6(epoch, release, r) ==
    IF r.ok
    THEN [ok |-> TRUE, epoch |-> epoch, release |-> release,
          pre_l |-> r.pre_l, pre_n |-> r.pre_n,
          post_l |-> r.post_l, post_n1 |-> r.post_n1, post_n2 |-> r.post_n2,
          dev_l |-> r.dev_l, dev_n |-> r.dev_n, local |-> r.local]
    ELSE NoMatch

\* (?P<release>[0-9]+(?:\.[0-9]+)*) from i2 to i3, and what follows it
ReleaseThen(s, epoch, i2, i3) == Groups6(epoch, Sub(s, i2, i3), MatchPre(s, i3))
ReleaseAt(s, epoch, i2) ==
    IF HasDigitAt(s, i2) THEN ReleaseThen(s, epoch, i2, ReleaseEnd(s, DigitsEnd(s, i2)))
    ELSE NoMatch

\* (?:(?P<epoch>[0-9]+)!)? : digits from i1 to e with "!" after them
HasEpoch(s, i1, e) == e > i1 /\ e <= Len(s) /\ s[e] = "!"
EpochThen(s, i1, e) ==
    ReleaseAt(s, IF HasEpoch(s, i1, e) THEN Sub(s, i1, e) ELSE None,
                 IF HasEpoch(s, i1, e) THEN e + 1 ELSE i1)
\* v?
AfterSpaces(s, i0) ==
    EpochThen(s, IF MatchesAt(s, i0, <<"v">>) THEN i0 + 1 ELSE i0,
                 DigitsEnd(s, IF MatchesAt(s, i0, <<"v">>) THEN i0 + 1 ELSE i0))

\* _regex.search(version): ^\s* VERSION_PATTERN \s*$
\* digits and release components are taken greedily: what they could give
\* back starts with a digit or with ".digit", which nothing after them takes
RegexSearch(s) == AfterSpaces(s, SkipSpaces(s, 1))

\* ------------------------------------------------------ Version.__init__
\* an optional (letter, number) segment; None is has = FALSE
NoSeg == [has |-> FALSE, l |-> <<>>, n |-> 0]
Seg(l, n) == [has |-> TRUE, l |-> l, n |-> n]

\* the spelling the code prefers for a lowered tag
Normalize(letter) ==
    IF letter = <<"a", "l", "p", "h", "a">> THEN <<"a">>
    ELSE IF letter = <<"b", "e", "t", "a">> THEN <<"b">>
    ELSE IF letter \in {<<"c">>, <<"p", "r", "e">>, <<"p", "r", "e", "v", "i", "e", "w">>}
         THEN <<"r", "c">>
    ELSE IF letter \in {<<"r", "e", "v">>, <<"r">>} THEN <<"p", "o", "s", "t">>
    ELSE letter

\* _parse_letter_version without the implicit post-release of lines 230-233
ParseLetterNoImplicit(letter, number) ==
    IF ~Truthy(letter) /\ ~Truthy(number) THEN [err |-> "", seg |-> NoSeg]
    ELSE IF number = None THEN [err |-> "", seg |-> Seg(Normalize(LowerStr(letter)), 0)]
    ELSE IF number = <<>> THEN [err |-> "ValueError", seg |-> NoSeg]
    ELSE [err |-> "", seg |-> Seg(Normalize(LowerStr(letter)), StrToInt(number))]

\* _parse_letter_version without the implicit 0 of lines 211-212: int(None)
ParseLetterNoDefault(letter, number) ==
    IF ~Truthy(letter) /\ ~Truthy(number) THEN [err |-> "", seg |-> NoSeg]
    ELSE IF Truthy(letter)
    THEN IF number = None THEN [err |-> "TypeError", seg |-> NoSeg]
         ELSE IF number = <<>> THEN [err |-> "ValueError", seg |-> NoSeg]
         ELSE [err |-> "", seg |-> Seg(Normalize(LowerStr(letter)), StrToInt(number))]
    ELSE [err |-> "", seg |-> Seg(<<"p", "o", "s", "t">>, StrToInt(number))]

\* _parse_letter_version: err is "ValueError" when int('') is evaluated
ParseLetterVersion(letter, number) ==
    IF ~Truthy(letter) /\ ~Truthy(number) THEN [err |-> "", seg |-> NoSeg]
    ELSE IF Truthy(letter)
    THEN LET num == IF number = None THEN <<"0">> ELSE number
         IN  IF num = <<>> THEN [err |-> "ValueError", seg |-> NoSeg]
             ELSE [err |-> "", seg |-> Seg(Normalize(LowerStr(letter)), StrToInt(num))]
    ELSE [err |-> "", seg |-> Seg(<<"p", "o", "s", "t">>, StrToInt(number))]

\* a part of the local segment: an int or a lowered string
IntPart(n) == [isint |-> TRUE, n |-> n, s |-> <<>>]
StrPart(s) == [isint |-> FALSE, n |-> 0, s |-> s]
NoLocal == [has |-> FALSE, parts |-> <<>>]

\* _local_version_separators.split(local)
RECURSIVE SplitLocal(_, _)
SplitLocal(s, acc) ==
    IF s = <<>> THEN <<acc>>
    ELSE IF IsSep(Head(s)) THEN <<acc>> \o SplitLocal(Tail(s), <<>>)
    ELSE SplitLocal(Tail(s), Append(acc, Head(s)))

\* _parse_local_version: the caller passes a string, never None
ParseLocalVersion(local) ==
    LET split == SplitLocal(local, <<>>)
        parts == [k \in DOMAIN split |->
                    IF IsDigitStr(split[k]) THEN IntPart(StrToInt(split[k]))
                    ELSE StrPart(LowerStr(split[k]))]
        first == parts[1]
    IN  IF (first.isint /\ first.n = 0) \/ (~first.isint /\ first.s = <<>>)
        THEN NoLocal
        ELSE [has |-> TRUE, parts |-> parts]

\* a field of the sort key: -inf, an int, a str or inf
NegInf == [k |-> "-inf", n |-> 0, s |-> <<>>]
PosInf == [k |-> "inf", n |-> 0, s |-> <<>>]
IntRank(n) == [k |-> "int", n |-> n, s |-> <<>>]
StrRank(s) == [k |-> "str", n |-> 0, s |-> s]

NoKey == [epoch |-> 0, release |-> <<>>, pre |-> PosInf, post |-> NegInf,
          dev |-> PosInf, local |-> PosInf]

\* the release without its trailing zeros (lines 259-261, commented out)
RECURSIVE DropTrailingZeros(_)
DropTrailingZeros(release) ==
    IF release # <<>> /\ release[Len(release)] = 0
    THEN DropTrailingZeros(SubSeq(release, 1, Len(release) - 1))
    ELSE release
\* _cmpkey with lines 259-261 at work
CmpkeyStripped(epoch, release, pre, post, dev, local) ==
    IF local.has /\ Len(local.parts) < 2 THEN [err |-> "IndexError", key |-> NoKey]
    ELSE [err |-> "",
          key |-> [epoch |-> epoch,
                   release |-> DropTrailingZeros(release),
                   pre |-> IF ~pre.has THEN PosInf ELSE IntRank(pre.n),
                   post |-> IF ~post.has THEN NegInf ELSE IntRank(post.n),
                   dev |-> IF ~dev.has THEN PosInf ELSE IntRank(dev.n),
                   local |-> IF ~local.has THEN PosInf
                             ELSE IF local.parts[2].isint THEN IntRank(local.parts[2].n)
                             ELSE StrRank(local.parts[2].s)]]

\* _cmpkey with other ranks for an absent pre segment and an absent dev
\* segment
CmpkeyRanking(epoch, release, pre, post, dev, local, noPre, noDev) ==
    IF local.has /\ Len(local.parts) < 2 THEN [err |-> "IndexError", key |-> NoKey]
    ELSE [err |-> "",
          key |-> [epoch |-> epoch,
                   release |-> release,
                   pre |-> IF ~pre.has THEN noPre ELSE IntRank(pre.n),
                   post |-> IF ~post.has THEN NegInf ELSE IntRank(post.n),
                   dev |-> IF ~dev.has THEN noDev ELSE IntRank(dev.n),
                   local |-> IF ~local.has THEN PosInf
                             ELSE IF local.parts[2].isint THEN IntRank(local.parts[2].n)
                             ELSE StrRank(local.parts[2].s)]]
\* _cmpkey with -inf for an absent pre segment
CmpkeyFinalFirst(epoch, release, pre, post, dev, local) ==
    CmpkeyRanking(epoch, release, pre, post, dev, local, NegInf, PosInf)
\* _cmpkey with -inf for an absent dev segment
CmpkeyDevLast(epoch, release, pre, post, dev, local) ==
    CmpkeyRanking(epoch, release, pre, post, dev, local, PosInf, NegInf)

\* _cmpkey: local[1] raises IndexError on a local segment of one part
Cmpkey(epoch, release, pre, post, dev, local) ==
    IF local.has /\ Len(local.parts) < 2 THEN [err |-> "IndexError", key |-> NoKey]
    ELSE [err |-> "",
          key |-> [epoch |-> epoch,
                   release |-> release,
                   pre |-> IF ~pre.has THEN PosInf ELSE IntRank(pre.n),
                   post |-> IF ~post.has THEN NegInf ELSE IntRank(post.n),
                   dev |-> IF ~dev.has THEN PosInf ELSE IntRank(dev.n),
                   local |-> IF ~local.has THEN PosInf
                             ELSE IF local.parts[2].isint THEN IntRank(local.parts[2].n)
                             ELSE StrRank(local.parts[2].s)]]

\* match.group("release").split(".") with int() on each
RECURSIVE ReleaseTuple(_, _)
ReleaseTuple(s, acc) ==
    IF s = <<>> THEN <<StrToInt(acc)>>
    ELSE IF Head(s) = "." THEN <<StrToInt(acc)>> \o ReleaseTuple(Tail(s), <<>>)
    ELSE ReleaseTuple(Tail(s), Append(acc, Head(s)))

NoVersion == [epoch |-> 0, release |-> <<>>, dev |-> NoSeg, pre |-> NoSeg,
              post |-> NoSeg, local |-> NoLocal]
\* the arguments of the exceptions int('') and local[1] raise
IntMessage ==
    <<"i", "n", "v", "a", "l", "i", "d", " ", "l", "i", "t", "e", "r", "a",
      "l", " ", "f", "o", "r", " ", "i", "n", "t", "(", ")", " ", "w", "i",
      "t", "h", " ", "b", "a", "s", "e", " ", "1", "0", ":", " ", "'", "'">>
IndexMessage ==
    <<"t", "u", "p", "l", "e", " ", "i", "n", "d", "e", "x", " ", "o", "u",
      "t", " ", "o", "f", " ", "r", "a", "n", "g", "e">>
ExcArgs(kind) ==
    CASE kind = "ValueError" -> <<IntMessage>>
      [] kind = "IndexError" -> <<IndexMessage>>
      [] OTHER -> <<>>
\* an exception leaves Version(): its class and its args
Raise(kind) == [err |-> kind, version |-> NoVersion, key |-> NoKey, args |-> ExcArgs(kind)]
\* a message that does not quote the string
MessageWithoutInput(version) ==
    <<"I", "n", "v", "a", "l", "i", "d", " ", "v", "e", "r", "s", "i", "o",
      "n">>
\* "Invalid version: '{0}'".format(version)
InvalidVersionMessage(version) ==
    <<"I", "n", "v", "a", "l", "i", "d", " ", "v", "e", "r", "s", "i", "o",
      "n", ":", " ", "'">>
    \o version \o <<"'">>
\* raise InvalidVersion(...)
RaiseInvalid(message) == [Raise("InvalidVersion") EXCEPT !.args = <<message>>]

\* self._key = self._cmpkey(...)
WithKey(v, k) ==
    IF k.err # "" THEN Raise(k.err)
    ELSE [err |-> "", version |-> v, key |-> k.key, args |-> <<>>]
MakeKey(v) == WithKey(v, Cmpkey(v.epoch, v.release, v.pre, v.post, v.dev, v.local))

\* self._version = _Version(...), its arguments evaluated in the order written
MakeVersion(m, pre, post, dev) ==
    IF pre.err # "" THEN Raise(pre.err)
    ELSE IF post.err # "" THEN Raise(post.err)
    ELSE IF dev.err # "" THEN Raise(dev.err)
    ELSE MakeKey([epoch |-> IF Truthy(m.epoch) THEN StrToInt(m.epoch) ELSE 0,
                  release |-> ReleaseTuple(m.release, <<>>),
                  dev |-> dev.seg, pre |-> pre.seg, post |-> post.seg,
                  local |-> ParseLocalVersion(OrEmpty(m.local))])

FromMatch(m, version) ==
    IF ~m.ok THEN RaiseInvalid(InvalidVersionMessage(version))
    ELSE MakeVersion(m,
                     ParseLetterVersion(m.pre_l, m.pre_n),
                     ParseLetterVersion(OrEmpty(m.post_l),
                                        IF Truthy(m.post_n1) THEN m.post_n1
                                        ELSE OrEmpty(m.post_n2)),
                     ParseLetterVersion(OrEmpty(m.dev_l), OrEmpty(m.dev_n)))

\* Version(version): err names the exception raised, "" when none is
VersionInit(version) == FromMatch(RegexSearch(version), version)

\* ------------------------------------------------------- Version.__str__
RECURSIVE JoinDot(_)
JoinDot(strs) ==
    IF strs = <<>> THEN <<>>
    ELSE IF Len(strs) = 1 THEN strs[1]
    ELSE strs[1] \o <<".">> \o JoinDot(Tail(strs))

PartStr(p) == IF p.isint THEN IntToStr(p.n) ELSE p.s

\* Version.local: the parts joined by ".", or None
VersionLocal(v) ==
    IF v.local.has THEN JoinDot([k \in DOMAIN v.local.parts |-> PartStr(v.local.parts[k])])
    ELSE None

VersionStr(v) ==
    (IF v.epoch # 0 THEN IntToStr(v.epoch) \o <<"!">> ELSE <<>>)
    \o JoinDot([k \in DOMAIN v.release |-> IntToStr(v.release[k])])
    \o (IF v.pre.has THEN v.pre.l \o IntToStr(v.pre.n) ELSE <<>>)
    \o (IF v.post.has THEN <<".", "p", "o", "s", "t">> \o IntToStr(v.post.n) ELSE <<>>)
    \o (IF v.dev.has THEN <<".", "d", "e", "v">> \o IntToStr(v.dev.n) ELSE <<>>)
    \o (IF VersionLocal(v) # None THEN <<"+">> \o VersionLocal(v) ELSE <<>>)

IsPrerelease(v) == v.dev.has \/ v.pre.has
IsPostrelease(v) == v.post.has
IsDevrelease(v) == v.dev.has

\* ------------------------------------------- _BaseVersion comparisons
CmpInt(a, b) == IF a < b THEN "lt" ELSE IF a = b THEN "eq" ELSE "gt"

\* order of two tuples of ints: the first unequal pair decides, a proper
\* prefix is smaller
RECURSIVE CmpRelease(_, _)
CmpRelease(a, b) ==
    IF a = <<>> /\ b = <<>> THEN "eq"
    ELSE IF a = <<>> THEN "lt"
    ELSE IF b = <<>> THEN "gt"
    ELSE IF Head(a) = Head(b) THEN CmpRelease(Tail(a), Tail(b))
    ELSE CmpInt(Head(a), Head(b))

\* order of two str
RECURSIVE CmpStr(_, _)
CmpStr(a, b) ==
    IF a = <<>> /\ b = <<>> THEN "eq"
    ELSE IF a = <<>> THEN "lt"
    ELSE IF b = <<>> THEN "gt"
    ELSE IF Head(a) = Head(b) THEN CmpStr(Tail(a), Tail(b))
    ELSE CmpInt(Ord(Head(a)), Ord(Head(b)))

IsNumber(x) == x.k # "str"

\* order of two unequal key fields. Python 3 raises TypeError on a number
\* against a str; Python 2 sorts every number before every str
CmpRank(x, y, isPy3) ==
    IF x = y THEN "eq"
    ELSE IF IsNumber(x) /\ IsNumber(y)
    THEN IF x.k = "-inf" \/ y.k = "inf" THEN "lt"
         ELSE IF x.k = "inf" \/ y.k = "-inf" THEN "gt"
         ELSE CmpInt(x.n, y.n)
    ELSE IF ~IsNumber(x) /\ ~IsNumber(y) THEN CmpStr(x.s, y.s)
    ELSE IF isPy3 THEN "TypeError"
    ELSE IF IsNumber(x) THEN "lt" ELSE "gt"

\* KeyCmp with the release compared before the epoch
KeyCmpReleaseFirst(a, b, isPy3) ==
    IF a.release # b.release THEN CmpRelease(a.release, b.release)
    ELSE IF a.epoch # b.epoch THEN CmpInt(a.epoch, b.epoch)
    ELSE IF a.pre # b.pre THEN CmpRank(a.pre, b.pre, isPy3)
    ELSE IF a.post # b.post THEN CmpRank(a.post, b.post, isPy3)
    ELSE IF a.dev # b.dev THEN CmpRank(a.dev, b.dev, isPy3)
    ELSE CmpRank(a.local, b.local, isPy3)

\* order of two keys as tuples: the first field that differs decides
KeyCmp(a, b, isPy3) ==
    IF a.epoch # b.epoch THEN CmpInt(a.epoch, b.epoch)
    ELSE IF a.release # b.release THEN CmpRelease(a.release, b.release)
    ELSE IF a.pre # b.pre THEN CmpRank(a.pre, b.pre, isPy3)
    ELSE IF a.post # b.post THEN CmpRank(a.post, b.post, isPy3)
    ELSE IF a.dev # b.dev THEN CmpRank(a.dev, b.dev, isPy3)
    ELSE CmpRank(a.local, b.local, isPy3)

Bool(b) == IF b THEN "True" ELSE "False"

\* _compare with one of the six operators: "True", "False" or "TypeError"
Compare(a, b, method, isPy3) ==
    LET c == KeyCmp(a, b, isPy3)
        yes == CASE method = "lt" -> c = "lt"
                 [] method = "le" -> c \in {"lt", "eq"}
                 [] method = "eq" -> c = "eq"
                 [] method = "ge" -> c \in {"gt", "eq"}
                 [] method = "gt" -> c = "gt"
                 [] method = "ne" -> c # "eq"
    IN  IF method \in {"eq", "ne"} THEN Bool((a = b) <=> (method = "eq"))
        ELSE IF c = "TypeError" THEN "TypeError"
        ELSE Bool(yes)

\* --------------------------------------------------- sorted(releases)
\* CPython's list.sort on fewer than 64 items: count_run finds the run the
\* list starts with, binarysort inserts the rest. Which pairs are compared
\* decides whether a TypeError is met.
\* hash() of an int, of inf and -inf, and of a str, character by character
RECURSIVE HashStr(_, _)
HashStr(s, acc) ==
    IF s = <<>> THEN acc ELSE HashStr(Tail(s), (acc * 31 + Ord(Head(s))) % 1000003)
HashRank(x) ==
    CASE x.k = "inf" -> 314159
      [] x.k = "-inf" -> -314159
      [] x.k = "int" -> x.n
      [] OTHER -> HashStr(x.s, 7)
\* hash() of a tuple: the hashes of its items, folded in their order
RECURSIVE HashTuple(_, _)
HashTuple(items, acc) ==
    IF items = <<>> THEN acc
    ELSE HashTuple(Tail(items), (acc * 31 + Head(items)) % 1000003)
HashKey(key) ==
    HashTuple(<<key.epoch, HashTuple(key.release, 3), HashRank(key.pre),
                HashRank(key.post), HashRank(key.dev), HashRank(key.local)>>, 3)
\* a hash of the parsed segments, the tag letters included
HashSegments(o) ==
    HashTuple(<<HashKey(o.key), HashStr(o.version.pre.l, 7)>>, 3)
\* __hash__: hash(self._key)
VersionHash(o) == HashKey(o.key)

LtObj(a, b, py) == Compare(a.key, b.key, "lt", py)
Sorted(xs) == [err |-> "", list |-> xs]
SortRaised(xs) == [err |-> "TypeError", list |-> xs]

\* count_run: the length of the run from xs[1], -1 when a comparison raises
RECURSIVE RunEnd(_, _, _, _)
RunStep(xs, i, desc, py, c) ==
    IF c = "TypeError" THEN -1
    ELSE IF (c = "True") = desc THEN RunEnd(xs, i + 1, desc, py)
    ELSE i - 1
RunEnd(xs, i, desc, py) ==
    IF i > Len(xs) THEN Len(xs)
    ELSE RunStep(xs, i, desc, py, LtObj(xs[i], xs[i - 1], py))

\* reverse_slice of the first n items
ReverseRun(xs, n) == [k \in DOMAIN xs |-> IF k <= n THEN xs[n + 1 - k] ELSE xs[k]]

\* binarysort's search for the place of pivot in xs[l..r-1]
RECURSIVE BinSearch(_, _, _, _, _)
BinStep(xs, pivot, l, r, p, c, py) ==
    IF c = "TypeError" THEN -1
    ELSE BinSearch(xs, pivot, IF c = "True" THEN l ELSE p + 1,
                              IF c = "True" THEN p ELSE r, py)
BinProbe(xs, pivot, l, r, p, py) == BinStep(xs, pivot, l, r, p, LtObj(pivot, xs[p], py), py)
BinSearch(xs, pivot, l, r, py) ==
    IF l >= r THEN l ELSE BinProbe(xs, pivot, l, r, l + ((r - l) \div 2), py)

RECURSIVE BinarySort(_, _, _)
InsertAt(xs, start, l, py) ==
    IF l < 0 THEN SortRaised(xs)
    ELSE BinarySort(SubSeq(xs, 1, l - 1) \o <<xs[start]>> \o SubSeq(xs, l, start - 1)
                    \o SubSeq(xs, start + 1, Len(xs)), start + 1, py)
BinarySort(xs, start, py) ==
    IF start > Len(xs) THEN Sorted(xs)
    ELSE InsertAt(xs, start, BinSearch(xs, xs[start], 1, start, py), py)

AfterCount(xs, desc, n, py) ==
    IF n < 0 THEN SortRaised(xs)
    ELSE BinarySort(IF desc THEN ReverseRun(xs, n) ELSE xs, n + 1, py)
AfterFirst(xs, first, py) ==
    IF first = "TypeError" THEN SortRaised(xs)
    ELSE AfterCount(xs, first = "True", RunEnd(xs, 3, first = "True", py), py)
ListSort(xs, py) ==
    IF Len(xs) < 2 THEN Sorted(xs) ELSE AfterFirst(xs, LtObj(xs[2], xs[1], py), py)

\* ------------------- CheckPackageUpdates.check_new_package_available
\* what the call returns: None, or (str(latest), not_patch_upgrade)
ReturnNone == [none |-> TRUE, version |-> <<>>, flag |-> FALSE]
Return(version, flag) == [none |-> FALSE, version |-> version, flag |-> flag]
\* an exception that leaves check_new_package_available
Propagated(exc) == [none |-> FALSE, version |-> <<exc>>, flag |-> FALSE]
\* a handler that catches nothing
Reraise(exc) == Propagated(exc)
\* except Exception: return None; every exception of lines 311-329 is one
ExceptException(exc) == ReturnNone

\* ParseReleases that skips the names Version() refuses
ParseReleasesSkipping(releases) ==
    [err |-> "",
     list |-> SelectSeq([k \in DOMAIN releases |-> VersionInit(releases[k])],
                        LAMBDA o : o.err = "")]

\* releases = [Version(r) for r in releases]: the first exception leaves
\* the comprehension
ParseReleases(releases) ==
    [err |-> IF \E k \in DOMAIN releases : VersionInit(releases[k]).err # ""
             THEN "raised" ELSE "",
     list |-> [k \in DOMAIN releases |-> VersionInit(releases[k])]]

\* FilterStable that keeps every release
FilterNothing(cur, latest) == latest

\* if not cur_version.is_devrelease and not cur_version.is_prerelease:
\*     latest_version = [r for r in latest_version if not ...]
FilterStable(cur, latest) ==
    IF ~IsDevrelease(cur.version) /\ ~IsPrerelease(cur.version)
    THEN SelectSeq(latest, LAMBDA r : ~IsDevrelease(r.version) /\ ~IsPrerelease(r.version))
    ELSE latest

\* FirstTwo that looks at the first component only
FirstOne(release) == SubSeq(release, 1, IF Len(release) < 1 THEN 0 ELSE 1)

\* release[:2]
FirstTwo(release) == SubSeq(release, 1, IF Len(release) < 2 THEN Len(release) ELSE 2)

\* if cur_version >= latest_version[-1]: return None
\* return str(latest_version[-1]), not_patch_upgrade
Newer(cur, last, ge) ==
    IF ge = "TypeError" THEN ExceptException("TypeError")
    ELSE IF ge = "True" THEN ReturnNone
    ELSE Return(VersionStr(last.version),
                FirstTwo(last.version.release) # FirstTwo(cur.version.release))
Latest(cur, latest, py) ==
    IF latest = <<>> THEN ExceptException("IndexError")
    ELSE Newer(cur, latest[Len(latest)],
               Compare(cur.key, latest[Len(latest)].key, "ge", py))
WithCurrent(sorted, cur, py) ==
    IF sorted.err # "" THEN ExceptException("TypeError")
    ELSE IF cur.err # "" THEN ExceptException(cur.err)
    ELSE Latest(cur, FilterStable(cur, sorted.list), py)
WithReleases(parsed, current, py) ==
    IF parsed.err # "" THEN ExceptException(parsed.err)
    ELSE WithCurrent(ListSort(parsed.list, py), VersionInit(current), py)

\* lines 319-331: the decision for the release names the index answered
\* with; every exception on the way ends in "except Exception: return None"
CheckDecision(releases, current, py) ==
    WithReleases(ParseReleases(releases), current, py)

\* ---------------------------------------------------------------- inputs
\* How a raw string is written: wrap 0 as it is, 1 with a leading "v",
\* 2 in upper case between spaces; style 0 without separators, 1 with "."
\* before a tag, 2 with "-" before a tag and "_" before its number.
\* A number below 0 is a number left out; tag 0 is a segment left out.
Sep1(style) == CASE style = 0 -> <<>> [] style = 1 -> <<".">> [] OTHER -> <<"-">>
Sep2(style) == IF style = 2 THEN <<"_">> ELSE <<>>
NumStr(n) == IF n < 0 THEN <<>> ELSE IntToStr(n)
UpperStr(s) ==
    [k \in DOMAIN s |-> IF InSeq(LowerAlpha, s[k]) THEN UpperAlpha[IndexOf(LowerAlpha, s[k])]
                        ELSE s[k]]
Wrap(w, s) ==
    CASE w = 0 -> s
      [] w = 1 -> <<"v">> \o s
      [] OTHER -> <<" ">> \o UpperStr(<<"v">> \o s) \o <<" ">>

LocalSamples == << <<>>,
                   <<"+", "a", "b", "c">>,
                   <<"+", "a", ".", "1">>,
                   <<"+", "a", "_", "b">>,
                   <<"+", "1", "-", "a">>,
                   <<"+", "0">> >>

\* the "-N" after a tag without number is that tag's number, no post-release
ImplicitIsPost(c) == ~(c.pre.tag # 0 /\ c.pre.num < 0 /\ Sep2(c.style) = <<>>)

\* the raw string of a description; canon writes every tag in the spelling
\* the mapping prefers and the implicit post-release as ".postN"
Build(c, canon) ==
    LET tagged(tags, g) ==
            IF g.tag = 0 THEN <<>>
            ELSE Sep1(c.style)
                 \o (IF canon THEN Normalize(tags[g.tag]) ELSE tags[g.tag])
                 \o Sep2(c.style) \o NumStr(g.num)
        post == IF c.post.tag = 0 /\ c.post.num >= 0
                THEN (IF canon /\ ImplicitIsPost(c)
                      THEN <<".", "p", "o", "s", "t">> ELSE <<"-">>) \o NumStr(c.post.num)
                ELSE tagged(PostTags, c.post)
    IN  Wrap(c.wrap,
             (IF c.epoch < 0 THEN <<>> ELSE IntToStr(c.epoch) \o <<"!">>)
             \o JoinDot([k \in DOMAIN c.release |-> IntToStr(c.release[k])])
             \o tagged(PreTags, c.pre) \o post \o tagged(DevTags, c.dev)
             \o LocalSamples[c.local])

Nums == 0..MaxNum
OptNums == {-1} \cup Nums
RECURSIVE SeqsUpTo(_, _)
SeqsUpTo(S, n) ==
    IF n = 0 THEN {<<>>}
    ELSE LET shorter == SeqsUpTo(S, n - 1)
         IN  shorter \cup {Append(q, x) : q \in {r \in shorter : Len(r) = n - 1}, x \in S}
Releases == SeqsUpTo(Nums, MaxRelease) \ {<<>>}
NoGroup == [tag |-> 0, num |-> -1]
Groups(tags) == {NoGroup} \cup [tag : DOMAIN tags, num : OptNums]
\* tag 0 with a number is the implicit post-release "-N"
PostGroups == Groups(PostTags) \cup [tag : {0}, num : Nums]

\* how the head of a version is written
HeadInputs ==
    [wrap : {0, 1, 2}, style : {1}, epoch : OptNums, release : Releases,
     pre : {NoGroup}, post : {NoGroup}, dev : {NoGroup}, local : {1}]
\* how its optional segments are written after the release 1.0
TailOf(pres, posts, devs, locals) ==
    [wrap : {0}, style : {0, 1, 2}, epoch : {-1}, release : {<<1, 0>>},
     pre : pres, post : posts, dev : devs, local : locals]
\* every way to write two of the optional segments, and some ways to write
\* all four
TailInputs ==
    LET P == Groups(PreTags)
        Q == PostGroups
        D == Groups(DevTags)
        L == DOMAIN LocalSamples
    IN  TailOf(P, Q, {NoGroup}, {1}) \cup TailOf(P, {NoGroup}, D, {1})
        \cup TailOf(P, {NoGroup}, {NoGroup}, L) \cup TailOf({NoGroup}, Q, D, {1})
        \cup TailOf({NoGroup}, Q, {NoGroup}, L) \cup TailOf({NoGroup}, {NoGroup}, D, L)
        \cup TailOf([tag : DOMAIN PreTags, num : {MaxNum}],
                  [tag : {0, 2}, num : {MaxNum}], [tag : {1}, num : {0}], {3, 4})

\* strings the grammar does not produce
Junk == { <<>>, <<"a", "b", "c">>, <<"1", ".", "0", "x">>, <<"1", ".", ".", "0">>,
          <<"1", ".", "0", "+">>, <<"!", "1">>, <<"1", ".", "0", "-">>,
          <<"1", ".", "0", "d", "e", "v", "1", "a", "1">>,
          <<"1", ".", "0", "+", "a", ".", ".", "b">>, <<"v">>,
          <<"1", ".", "0", " ", "a", "1">>, <<"1", "!">> }

\* ------------------------------------------------- a program using Version
\* isPy3: the interpreter (check_updates.py supports both through six)
\* raw:   the strings handed to Version(), None for a slot that is not used
\* valid: whether raw[1] is a sentence of the version grammar
\* obj:   the outcome of Version(raw[i])
\* text:  str(obj[i]);  again: the outcome of Version(text[i])
\* cmp:   the outcome of the six comparisons of obj[i] with obj[j]
\* hashes: hash(obj[i])
VARIABLES isPy3, raw, valid, obj, text, again, cmp, pc, hashes

\* ------------------------------------------- the callers of the update check
\* checked:  CheckPackageUpdates._package_version_checked
\* threads:  the threads that call check_new_package_available
\* cpc:      where each of them is in the call
\* once:     its only_once argument
\* releases: its local variable releases, as the index answered
\* result:   what its call returned
\* statsStarted, statsDone: the update_statistics threads started and ended
\* index:    the release names the package index holds
\* current:  trains.version.__version__
\* task:     for a thread that runs Task's check_package_update: "idle",
\*           "running", "ended", or "died" of an exception; "no" for a
\*           thread that calls check_new_package_available itself
\* console:  the message the thread wrote to the console
VARIABLES checked, threads, cpc, once, releases, result, statsStarted, statsDone,
          index, current, task, console

verVars == <<raw, valid, obj, text, again, cmp, pc, hashes>>
chkVars == <<checked, threads, cpc, once, releases, result, statsStarted, statsDone,
             index, current, task, console>>

\* ------------------------------------------------------------ one DevWorker
\* devThread:     self._thread, 0 for None, else the daemon it started
\* devTask:       self._task is not None
\* exitEvent:     the flag of self._exit_event
\* devStopSignal: self._dev_stop_signal is not None
\* supportPing:   self._support_ping
\* enabled:       TaskStopSignal.enabled
\* hasPing:       hasattr(tasks, 'PingRequest')
\* wpc:           where the thread that calls register() and unregister() is
\* last:          the call it returned from last
\* dpc:           where each daemon thread is in _daemon
VARIABLES devThread, devTask, exitEvent, devStopSignal, supportPing, enabled,
          hasPing, wpc, last, dpc

wrkVars == <<devThread, devTask, exitEvent, devStopSignal, supportPing, enabled,
             hasPing, wpc, last, dpc>>
vars == <<isPy3, verVars, chkVars, wrkVars>>

Daemons == 1 .. MaxDaemons
\* DevWorker.__init__: no thread, no task, the event clear
NewWorker ==
    /\ devThread = 0
    /\ devTask = FALSE
    /\ exitEvent = FALSE
    /\ devStopSignal = FALSE
    /\ supportPing = FALSE
    /\ wpc = "idle"
    /\ last = "init"
    /\ dpc = [d \in Daemons |-> "none"]
\* a DevWorker nobody calls
NoWorker ==
    /\ NewWorker
    /\ enabled = FALSE
    /\ hasPing = FALSE

Threads == {1, 2}
\* no thread calls the update check
NoCheck ==
    /\ checked = FALSE
    /\ threads = {}
    /\ cpc = [t \in Threads |-> "idle"]
    /\ once = [t \in Threads |-> FALSE]
    /\ releases = [t \in Threads |-> <<>>]
    /\ result = [t \in Threads |-> ReturnNone]
    /\ statsStarted = 0
    /\ statsDone = 0
    /\ index = <<>>
    /\ current = <<>>
    /\ task = [t \in Threads |-> "no"]
    /\ console = [t \in Threads |-> ""]

Slots == {1, 2, 3}
Pairs == Slots \X Slots
Methods == {"lt", "le", "eq", "ge", "gt", "ne"}
NotBuilt == Raise("NotBuilt")
NoCmp == [m \in Methods |-> "n/a"]

InitSlots ==
    /\ isPy3 \in BOOLEAN
    /\ obj = [i \in Slots |-> NotBuilt]
    /\ text = [i \in Slots |-> None]
    /\ again = [i \in Slots |-> NotBuilt]
    /\ cmp = [p \in Pairs |-> NoCmp]
    /\ pc = "construct"
    /\ hashes = [i \in Slots |-> 0]
    /\ NoCheck
    /\ NoWorker

\* one string and its respelling with the preferred tags
InitParse ==
    /\ InitSlots
    /\ \/ \E c \in HeadInputs \cup TailInputs :
             /\ raw = <<Build(c, FALSE), Build(c, TRUE), None>>
             /\ valid = TRUE
       \/ \E j \in Junk :
             /\ raw = <<j, j, None>>
             /\ valid = FALSE

Built(i) == obj[i].err = ""
NextSlot == Min({i \in Slots : raw[i] # None /\ obj[i] = NotBuilt})

\* x = Version(raw[i]), slot after slot
Construct ==
    /\ pc = "construct"
    /\ LET i == NextSlot
           rest == {j \in Slots : j # i /\ raw[j] # None /\ obj[j] = NotBuilt}
       IN  /\ obj' = [obj EXCEPT ![i] = VersionInit(raw[i])]
           /\ pc' = IF rest = {} THEN "ready" ELSE "construct"
    /\ UNCHANGED <<isPy3, raw, valid, text, again, cmp, hashes, chkVars, wrkVars>>

\* every comparison of two constructed versions
CompareAll ==
    /\ pc = "ready"
    /\ cmp' = [p \in Pairs |->
                 IF Built(p[1]) /\ Built(p[2])
                 THEN [m \in Methods |-> Compare(obj[p[1]].key, obj[p[2]].key, m, isPy3)]
                 ELSE NoCmp]
    /\ pc' = "compared"
    /\ UNCHANGED <<isPy3, raw, valid, obj, text, again, hashes, chkVars, wrkVars>>

\* str(x) of every constructed version
Str ==
    /\ pc = "compared"
    /\ text' = [i \in Slots |-> IF Built(i) THEN VersionStr(obj[i].version) ELSE None]
    /\ pc' = "rendered"
    /\ UNCHANGED <<isPy3, raw, valid, obj, again, cmp, hashes, chkVars, wrkVars>>

\* Version(str(x))
Reconstruct ==
    /\ pc = "rendered"
    /\ again' = [i \in Slots |-> IF text[i] # None THEN VersionInit(text[i]) ELSE NotBuilt]
    /\ pc' = "reparsed"
    /\ UNCHANGED <<isPy3, raw, valid, obj, text, cmp, hashes, chkVars, wrkVars>>

NextParse == Construct \/ CompareAll \/ Str \/ Reconstruct
SpecParse == InitParse /\ [][NextParse]_vars

\* ------------------------------------------------- inputs of the order
A1 == [tag |-> 1, num |-> 1]
B0 == [tag |-> 2, num |-> 0]
Post1 == [tag |-> 1, num |-> 1]
Dev0 == [tag |-> 1, num |-> 0]
RECURSIVE Zeros(_)
Zeros(n) == IF n = 0 THEN <<>> ELSE <<0>> \o Zeros(n - 1)
\* 1, 1.0, 1.0.0, ... and 2, 2.0
OrderReleases == {<<1>> \o Zeros(k) : k \in 0..(MaxRelease - 1)} \cup {<<2>>, <<2, 0>>}

\* versions that differ in epoch, release and public segments, and versions
\* of one release that differ in their tags and their local segment
OrderInputs ==
    [wrap : {0}, style : {1}, epoch : {-1, 1}, release : OrderReleases,
     pre : {NoGroup, A1}, post : {NoGroup, Post1}, dev : {NoGroup, Dev0}, local : {1}]
    \cup
    [wrap : {0}, style : {1}, epoch : {-1}, release : {<<1, 0>>},
     pre : {NoGroup, A1, B0}, post : {NoGroup, Post1}, dev : {NoGroup, Dev0},
     local : {2, 3, 4}]
TripleInputs ==
    [wrap : {0}, style : {1}, epoch : {-1}, release : {<<1, 0>>},
     pre : {NoGroup, A1}, post : {NoGroup}, dev : {NoGroup, Dev0}, local : {1, 3, 4}]

\* two versions to compare
InitOrder ==
    /\ InitSlots
    /\ valid = TRUE
    /\ \E c \in OrderInputs, d \in OrderInputs :
          raw = <<Build(c, FALSE), Build(d, FALSE), None>>
\* three versions to compare
InitTriple ==
    /\ InitSlots
    /\ valid = TRUE
    /\ \E c \in TripleInputs, d \in TripleInputs, e \in TripleInputs :
          raw = <<Build(c, FALSE), Build(d, FALSE), Build(e, FALSE)>>

NextOrder == Construct \/ CompareAll
SpecOrder == InitOrder /\ [][NextOrder]_vars
SpecTriple == InitTriple /\ [][NextOrder]_vars

\* ------------------------------------------ inputs of the pre-release order
\* hash(x) of every constructed version
HashAll ==
    /\ pc = "compared"
    /\ hashes' = [i \in Slots |-> IF Built(i) THEN VersionHash(obj[i]) ELSE 0]
    /\ pc' = "hashed"
    /\ UNCHANGED <<isPy3, raw, valid, obj, text, again, cmp, chkVars, wrkVars>>

\* 1.0 with every pre-release tag and number, with and without .post1 and
\* .dev0
PreInputs ==
    [wrap : {0}, style : {0}, epoch : {-1}, release : {<<1, 0>>},
     pre : {NoGroup} \cup [tag : {1, 2, 4}, num : 0..(MaxNum + 1)],
     post : {NoGroup, Post1}, dev : {NoGroup, Dev0}, local : {1}]
InitPre ==
    /\ InitSlots
    /\ valid = TRUE
    /\ \E c \in PreInputs, d \in PreInputs :
          raw = <<Build(c, FALSE), Build(d, FALSE), None>>
NextPre == Construct \/ CompareAll \/ HashAll
SpecPre == InitPre /\ [][NextPre]_vars

\* ------------------------------------------------------ the update check
Str100 == <<"1", ".", "0", ".", "0">>
Str101 == <<"1", ".", "0", ".", "1">>
Str102 == <<"1", ".", "0", ".", "2">>
Str110 == <<"1", ".", "1", ".", "0">>
Str200 == <<"2", ".", "0", ".", "0">>
Str090 == <<"0", ".", "9", ".", "0">>
StrJunk == <<"j", "u", "n", "k">>
Str200a1 == Str200 \o <<"a", "1">>
CandidateNames == {Str100, Str110, Str200, Str102, Str090, Str200a1,
                   StrJunk, Str100 \o <<"+", "a", ".", "b">>}
CurrentNames == {Str100, Str101, Str100 \o <<"a", "1">>}

\* the keys of a JSON object: no name twice, in any order
RECURSIVE Listings(_, _)
Listings(S, n) ==
    IF n = 0 THEN {<<>>}
    ELSE LET shorter == Listings(S, n - 1)
         IN  shorter \cup {Append(q, x) : q \in {r \in shorter : Len(r) = n - 1}, x \in S}
NoRepeat(q) == \A i \in DOMAIN q, j \in DOMAIN q : q[i] = q[j] => i = j
Indexes == {q \in Listings(CandidateNames, MaxCands) : NoRepeat(q)}

InitCheck(callers) ==
    /\ isPy3 \in BOOLEAN
    /\ raw = <<None, None, None>>
    /\ valid = TRUE
    /\ obj = [i \in Slots |-> NotBuilt]
    /\ text = [i \in Slots |-> None]
    /\ again = [i \in Slots |-> NotBuilt]
    /\ cmp = [p \in Pairs |-> NoCmp]
    /\ pc = "unused"
    /\ hashes = [i \in Slots |-> 0]
    /\ checked = FALSE
    /\ threads = callers
    /\ cpc = [t \in Threads |-> "idle"]
    /\ once = [t \in Threads |-> FALSE]
    /\ releases = [t \in Threads |-> <<>>]
    /\ result = [t \in Threads |-> ReturnNone]
    /\ statsStarted = 0
    /\ statsDone = 0
    /\ index \in Indexes
    /\ current \in CurrentNames
    /\ task = [t \in Threads |-> "no"]
    /\ console = [t \in Threads |-> ""]
    /\ NoWorker

\* check_new_package_available(only_once) is called
Call(t) ==
    /\ t \in threads
    /\ task[t] = "no"
    /\ cpc[t] = "idle"
    /\ \E b \in BOOLEAN : once' = [once EXCEPT ![t] = b]
    /\ cpc' = [cpc EXCEPT ![t] = "gate"]
    /\ UNCHANGED <<isPy3, verVars, wrkVars, checked, threads, releases, result, statsStarted,
                   statsDone, index, current, task, console>>

\* a gate that tests the latch and sets it in one step
GateAtomic(t) ==
    /\ cpc[t] = "gate"
    /\ cpc' = [cpc EXCEPT ![t] = IF once[t] /\ checked THEN "done" ELSE "latch"]
    /\ checked' = TRUE
    /\ UNCHANGED <<isPy3, verVars, wrkVars, threads, once, releases, result,
                   statsStarted, statsDone, index, current, task, console>>
\* a gate that does not look at the latch
GateOpen(t) ==
    /\ cpc[t] = "gate"
    /\ cpc' = [cpc EXCEPT ![t] = "latch"]
    /\ UNCHANGED <<isPy3, verVars, wrkVars, checked, threads, once, releases, result,
                   statsStarted, statsDone, index, current, task, console>>

\* if only_once and cls._package_version_checked: return None
Gate(t) ==
    /\ cpc[t] = "gate"
    /\ cpc' = [cpc EXCEPT ![t] = IF once[t] /\ checked THEN "done" ELSE "latch"]
    /\ UNCHANGED <<isPy3, verVars, wrkVars, checked, threads, once, releases, result,
                   statsStarted, statsDone, index, current, task, console>>

\* cls._package_version_checked = True; update_statistics.start()
SetLatch(t) ==
    /\ cpc[t] = "latch"
    /\ checked' = TRUE
    /\ statsStarted' = statsStarted + 1
    /\ cpc' = [cpc EXCEPT ![t] = "fetch"]
    /\ UNCHANGED <<isPy3, verVars, wrkVars, threads, once, releases, result, statsDone,
                   index, current, task, console>>

\* requests.get(...).json()['releases'].keys() answers
FetchReturns(t) ==
    /\ cpc[t] = "fetch"
    /\ releases' = [releases EXCEPT ![t] = index]
    /\ cpc' = [cpc EXCEPT ![t] = "evaluate"]
    /\ UNCHANGED <<isPy3, verVars, wrkVars, checked, threads, once, result, statsStarted,
                   statsDone, index, current, task, console>>

\* requests.get(...).json()['releases'] raises: except Exception: return None
FetchRaises(t) ==
    /\ cpc[t] = "fetch"
    /\ result' = [result EXCEPT ![t] = ExceptException("RequestException")]
    /\ cpc' = [cpc EXCEPT ![t] = "done"]
    /\ UNCHANGED <<isPy3, verVars, wrkVars, checked, threads, once, releases, statsStarted,
                   statsDone, index, current, task, console>>

\* lines 319-331
Evaluate(t) ==
    /\ cpc[t] = "evaluate"
    /\ result' = [result EXCEPT ![t] = CheckDecision(releases[t], current, isPy3)]
    /\ cpc' = [cpc EXCEPT ![t] = "done"]
    /\ UNCHANGED <<isPy3, verVars, wrkVars, checked, threads, once, releases, statsStarted,
                   statsDone, index, current, task, console>>

\* get_version_from_updates_server: the request ends or raises, and the
\* thread ends either way
UpdateStatistics ==
    /\ statsDone < statsStarted
    /\ statsDone' = statsDone + 1
    /\ UNCHANGED <<isPy3, verVars, wrkVars, checked, threads, cpc, once, releases, result,
                   statsStarted, index, current, task, console>>

NextCheck ==
    \/ \E t \in Threads : Call(t) \/ Gate(t) \/ SetLatch(t) \/ FetchReturns(t)
                          \/ FetchRaises(t) \/ Evaluate(t)
    \/ UpdateStatistics

\* one thread calls the update check
InitEvaluate == InitCheck({1})
SpecEvaluate == InitEvaluate /\ [][NextCheck]_vars

\* ------------------------------------- Task's check_package_update thread
\* latest_version = CheckPackageUpdates.check_new_package_available(only_once=True)
TaskCall(t) ==
    /\ t \in threads
    /\ task[t] = "idle"
    /\ cpc[t] = "idle"
    /\ task' = [task EXCEPT ![t] = "running"]
    /\ once' = [once EXCEPT ![t] = TRUE]
    /\ cpc' = [cpc EXCEPT ![t] = "gate"]
    /\ UNCHANGED <<isPy3, verVars, wrkVars, checked, threads, releases, result, statsStarted,
                   statsDone, index, current, console>>

\* the call has returned to the thread
Returned(t) == task[t] = "running" /\ cpc[t] = "done"
\* the call has left an exception to the thread
Raised(r) == ~r.none /\ Len(r.version) = 1 /\ Len(r.version[1]) > 1
\* except Exception: pass
ExceptPass(exc) == "ended"

\* if latest_version: is false, and the thread ends
TaskQuiet(t) ==
    /\ Returned(t)
    /\ result[t].none
    /\ task' = [task EXCEPT ![t] = "ended"]
    /\ UNCHANGED <<isPy3, verVars, wrkVars, checked, threads, cpc, once, releases, result,
                   statsStarted, statsDone, index, current, console>>

\* self.get_logger().console(...) of the message the flag chooses
TaskReports(t) ==
    /\ Returned(t)
    /\ ~result[t].none /\ ~Raised(result[t])
    /\ console' = [console EXCEPT ![t] = IF ~result[t].flag THEN "package" ELSE "server"]
    /\ task' = [task EXCEPT ![t] = "ended"]
    /\ UNCHANGED <<isPy3, verVars, wrkVars, checked, threads, cpc, once, releases, result,
                   statsStarted, statsDone, index, current>>

\* the call or the logger raises, and "except Exception: pass" ends the
\* thread
TaskAbsorbs(t) ==
    /\ Returned(t)
    /\ ~result[t].none
    /\ task' = [task EXCEPT ![t] = ExceptPass("Exception")]
    /\ UNCHANGED <<isPy3, verVars, wrkVars, checked, threads, cpc, once, releases, result,
                   statsStarted, statsDone, index, current, console>>

TaskIndexes == {q \in Indexes : Len(q) <= MaxTaskCands}
\* one Task thread; __version__ may be a string Version() refuses
InitTask ==
    /\ isPy3 \in BOOLEAN
    /\ raw = <<None, None, None>>
    /\ valid = TRUE
    /\ obj = [i \in Slots |-> NotBuilt]
    /\ text = [i \in Slots |-> None]
    /\ again = [i \in Slots |-> NotBuilt]
    /\ cmp = [p \in Pairs |-> NoCmp]
    /\ pc = "unused"
    /\ hashes = [i \in Slots |-> 0]
    /\ checked = FALSE
    /\ threads = {1}
    /\ cpc = [t \in Threads |-> "idle"]
    /\ once = [t \in Threads |-> FALSE]
    /\ releases = [t \in Threads |-> <<>>]
    /\ result = [t \in Threads |-> ReturnNone]
    /\ statsStarted = 0
    /\ statsDone = 0
    /\ index \in TaskIndexes
    /\ current \in CurrentNames \cup {StrJunk}
    /\ task = [t \in Threads |-> IF t = 1 THEN "idle" ELSE "no"]
    /\ console = [t \in Threads |-> ""]
    /\ NoWorker

NextTask ==
    \/ \E t \in Threads : TaskCall(t) \/ Gate(t) \/ SetLatch(t) \/ FetchReturns(t)
                          \/ FetchRaises(t) \/ Evaluate(t)
                          \/ TaskQuiet(t) \/ TaskReports(t) \/ TaskAbsorbs(t)
    \/ UpdateStatistics
SpecTask == InitTask /\ [][NextTask]_vars

\* ------------------------------------------------ two callers of the check
RaceIndexes == {q \in Indexes : Len(q) <= MaxRaceCands}
\* two threads call the update check: the first directly, the second
\* directly or as a Task's check_package_update thread
InitRace ==
    /\ isPy3 \in BOOLEAN
    /\ raw = <<None, None, None>>
    /\ valid = TRUE
    /\ obj = [i \in Slots |-> NotBuilt]
    /\ text = [i \in Slots |-> None]
    /\ again = [i \in Slots |-> NotBuilt]
    /\ cmp = [p \in Pairs |-> NoCmp]
    /\ pc = "unused"
    /\ hashes = [i \in Slots |-> 0]
    /\ checked = FALSE
    /\ threads = {1, 2}
    /\ cpc = [t \in Threads |-> "idle"]
    /\ once = [t \in Threads |-> FALSE]
    /\ releases = [t \in Threads |-> <<>>]
    /\ result = [t \in Threads |-> ReturnNone]
    /\ statsStarted = 0
    /\ statsDone = 0
    /\ index \in RaceIndexes
    /\ current = Str100
    /\ \E kind \in {"no", "idle"} : task = [t \in Threads |-> IF t = 2 THEN kind ELSE "no"]
    /\ console = [t \in Threads |-> ""]
    /\ NoWorker

NextRace ==
    \/ \E t \in Threads : Call(t) \/ TaskCall(t) \/ Gate(t) \/ SetLatch(t)
                          \/ FetchReturns(t) \/ FetchRaises(t) \/ Evaluate(t)
                          \/ TaskQuiet(t) \/ TaskReports(t) \/ TaskAbsorbs(t)
    \/ UpdateStatistics
SpecRace == InitRace /\ [][NextRace]_vars

\* ------------------------------------------- DevWorker and its daemons
\* one thread calls register() and unregister(), one call after the other;
\* the daemons run beside it, statement by statement
Spawned == {d \in Daemons : dpc[d] # "none"}
InLoop(d) == dpc[d] \notin {"none", "exited", "crashed"}

\* register(task): if self._thread: return True
RegisterTest ==
    /\ wpc = "idle"
    /\ devThread # 0 \/ Spawned # Daemons
    /\ wpc' = IF devThread # 0 THEN "idle" ELSE "signal"
    /\ last' = IF devThread # 0 THEN "register" ELSE last
    /\ UNCHANGED <<isPy3, verVars, chkVars, devThread, devTask, exitEvent,
                   devStopSignal, supportPing, enabled, hasPing, dpc>>

\* lines 38-43: the stop signal, _support_ping, and "return" when there is
\* nothing to monitor
RegisterSignal ==
    /\ wpc = "signal"
    /\ devStopSignal' = (enabled \/ devStopSignal)
    /\ supportPing' = hasPing
    /\ wpc' = IF ~supportPing' /\ ~devStopSignal' THEN "idle" ELSE "task"
    /\ last' = IF ~supportPing' /\ ~devStopSignal' THEN "register" ELSE last
    /\ UNCHANGED <<isPy3, verVars, chkVars, devThread, devTask, exitEvent,
                   enabled, hasPing, dpc>>

\* self._task = task
RegisterTask ==
    /\ wpc = "task"
    /\ devTask' = TRUE
    /\ wpc' = "clear"
    /\ UNCHANGED <<isPy3, verVars, chkVars, devThread, exitEvent, devStopSignal,
                   supportPing, enabled, hasPing, last, dpc>>

\* self._exit_event.clear()
RegisterClear ==
    /\ wpc = "clear"
    /\ exitEvent' = FALSE
    /\ wpc' = "start"
    /\ UNCHANGED <<isPy3, verVars, chkVars, devThread, devTask, devStopSignal,
                   supportPing, enabled, hasPing, last, dpc>>

\* self._thread = Thread(target=self._daemon); self._thread.start(); return True
RegisterStart ==
    /\ wpc = "start"
    /\ LET d == Min(Daemons \ Spawned)
       IN  /\ devThread' = d
           /\ dpc' = [dpc EXCEPT ![d] = "start"]
    /\ wpc' = "idle"
    /\ last' = "register"
    /\ UNCHANGED <<isPy3, verVars, chkVars, devTask, exitEvent, devStopSignal,
                   supportPing, enabled, hasPing>>

\* unregister(): self._exit_event.set(), which wakes the threads that wait
UnregisterSet ==
    /\ wpc = "idle"
    /\ exitEvent' = TRUE
    /\ dpc' = [d \in Daemons |-> IF dpc[d] = "blocked" THEN "signalled" ELSE dpc[d]]
    /\ wpc' = "unsignal"
    /\ UNCHANGED <<isPy3, verVars, chkVars, devThread, devTask, devStopSignal,
                   supportPing, enabled, hasPing, last>>

\* self._dev_stop_signal = None
UnregisterSignal ==
    /\ wpc = "unsignal"
    /\ devStopSignal' = FALSE
    /\ wpc' = "unthread"
    /\ UNCHANGED <<isPy3, verVars, chkVars, devThread, devTask, exitEvent,
                   supportPing, enabled, hasPing, last, dpc>>

\* self._thread = None
UnregisterThread ==
    /\ wpc = "unthread"
    /\ devThread' = 0
    /\ wpc' = "untask"
    /\ UNCHANGED <<isPy3, verVars, chkVars, devTask, exitEvent, devStopSignal,
                   supportPing, enabled, hasPing, last, dpc>>

\* self._task = None; return True
UnregisterTask ==
    /\ wpc = "untask"
    /\ devTask' = FALSE
    /\ wpc' = "idle"
    /\ last' = "unregister"
    /\ UNCHANGED <<isPy3, verVars, chkVars, devThread, exitEvent, devStopSignal,
                   supportPing, enabled, hasPing, dpc>>

\* daemon d goes on to another place of _daemon
Goes(d, to) ==
    /\ dpc' = [dpc EXCEPT ![d] = to]
    /\ UNCHANGED <<isPy3, verVars, chkVars, devThread, devTask, exitEvent,
                   devStopSignal, supportPing, enabled, hasPing, wpc, last>>

\* a loop that nothing ends
StayIn(stays, to) == to
\* where the daemon goes on to while the loop lasts: "return" at line 55
\* and the end of the while loop at line 53 end the thread
StayOrLeave(stays, to) == IF stays THEN to ELSE "exited"

\* last_ping = time()
DaemonStart(d) ==
    /\ dpc[d] = "start"
    /\ Goes(d, "loop")
\* while self._task is not None:
LoopTest(d) ==
    /\ dpc[d] = "loop"
    /\ Goes(d, StayOrLeave(devTask, "wait"))
\* self._exit_event.wait(...) finds the flag set and returns True, or waits
WaitEnter(d) ==
    /\ dpc[d] = "wait"
    /\ Goes(d, StayOrLeave(~exitEvent, "blocked"))
\* the wait ends by its timeout and returns False
WaitTimesOut(d) ==
    /\ dpc[d] = "blocked"
    /\ Goes(d, "due")
\* the wait was woken by set(): Python 3 returns True, Python 2 returns the
\* flag as it is by now
WaitSignalled(d) ==
    /\ dpc[d] = "signalled"
    /\ Goes(d, StayOrLeave(~isPy3 /\ ~exitEvent, "due"))
\* if self._support_ping and (time() - last_ping) >= self.ping_period:
PingDue(d) ==
    /\ dpc[d] = "due"
    /\ supportPing
    /\ Goes(d, "ping")
\* ... is false: no support, or the period has not passed
PingNotDue(d) ==
    /\ dpc[d] = "due"
    /\ Goes(d, "signal")
\* self.ping(); last_ping = time(): the request is sent if self._task, and
\* what it raises is swallowed
Ping(d) ==
    /\ dpc[d] = "ping"
    /\ Goes(d, "signal")
\* if self._dev_stop_signal:
SignalTest(d) ==
    /\ dpc[d] = "signal"
    /\ Goes(d, IF devStopSignal THEN "test" ELSE "loop")
\* stop_reason = self._dev_stop_signal.test(): AttributeError when
\* unregister() has put None there since line 60
Test(d) ==
    /\ dpc[d] = "test"
    /\ \E reason \in BOOLEAN :
          Goes(d, IF ~devStopSignal THEN "crashed"
                  ELSE IF reason THEN "stop" ELSE "loop")
\* if stop_reason and self._task:
StopTest(d) ==
    /\ dpc[d] = "stop"
    /\ Goes(d, IF devTask THEN "stopcall" ELSE "loop")
\* self._task._dev_mode_stop_task(stop_reason): AttributeError when
\* unregister() has put None there since line 62
StopCall(d) ==
    /\ dpc[d] = "stopcall"
    /\ Goes(d, IF devTask THEN "loop" ELSE "crashed")

DaemonStep(d) ==
    \/ DaemonStart(d) \/ LoopTest(d) \/ WaitEnter(d) \/ WaitTimesOut(d)
    \/ WaitSignalled(d) \/ PingDue(d) \/ PingNotDue(d) \/ Ping(d)
    \/ SignalTest(d) \/ Test(d) \/ StopTest(d) \/ StopCall(d)

InitWorker ==
    /\ isPy3 \in BOOLEAN
    /\ raw = <<None, None, None>>
    /\ valid = TRUE
    /\ obj = [i \in Slots |-> NotBuilt]
    /\ text = [i \in Slots |-> None]
    /\ again = [i \in Slots |-> NotBuilt]
    /\ cmp = [p \in Pairs |-> NoCmp]
    /\ pc = "unused"
    /\ hashes = [i \in Slots |-> 0]
    /\ NoCheck
    /\ NewWorker
    /\ enabled \in BOOLEAN
    /\ hasPing \in BOOLEAN

NextWorker ==
    \/ RegisterTest \/ RegisterSignal \/ RegisterTask \/ RegisterClear \/ RegisterStart
    \/ UnregisterSet \/ UnregisterSignal \/ UnregisterThread \/ UnregisterTask
    \/ \E d \in Daemons : DaemonStep(d)
SpecWorker == InitWorker /\ [][NextWorker]_vars
\* a thread that can run is run: every daemon takes its next step
SpecWorkerLive == SpecWorker /\ \A d \in Daemons : WF_vars(DaemonStep(d))

\* ================================================================ claims
V(i) == obj[i].version
Lt(i, j) == cmp[<<i, j>>]["lt"]
Eq(i, j) == cmp[<<i, j>>]["eq"]
Gt(i, j) == cmp[<<i, j>>]["gt"]
BuiltSlots == {i \in Slots : Built(i)}
Str10 == <<"1", ".", "0">>

\* C1: for every raw string that is valid under the grammar, parsing the
\* canonical rendering of parse(raw) yields a Version whose segments are
\* identical to those of parse(raw).
C1_RoundTrip ==
    (pc = "reparsed" /\ valid) =>
        /\ Built(1)
        /\ again[1].err = ""
        /\ again[1].version = V(1)

\* C2: the comparison operators are a strict total order on valid Versions:
\* every comparison returns a boolean, exactly one of a < b, a == b, a > b
\* holds, and < is antisymmetric and transitive.
C2_TotalOrder ==
    pc = "compared" =>
        \A i \in BuiltSlots, j \in BuiltSlots :
            /\ \A m \in Methods : cmp[<<i, j>>][m] \in {"True", "False"}
            /\ Cardinality({m \in {"lt", "eq", "gt"} : cmp[<<i, j>>][m] = "True"}) = 1
            /\ ~(Lt(i, j) = "True" /\ Lt(j, i) = "True")
            /\ \A k \in BuiltSlots :
                  (Lt(i, j) = "True" /\ Lt(j, k) = "True") => Lt(i, k) = "True"

\* C3: two raw strings that differ only in the spelling of a tag (alpha->a,
\* beta->b, c|pre|preview->rc, rev|r->post, "-N" vs ".postN") parse to
\* Versions with identical segments that compare equal.
C3_Synonyms ==
    (pc = "compared" /\ valid /\ raw[1] # raw[2]) =>
        /\ Built(1) /\ Built(2)
        /\ V(1) = V(2)
        /\ Eq(1, 2) = "True"

\* C4: a Version with the greater epoch is the greater Version, whatever
\* the release, pre, post, dev and local segments of the two.
C4_EpochDominance ==
    pc = "compared" =>
        \A i \in BuiltSlots, j \in BuiltSlots :
            V(i).epoch > V(j).epoch => (Gt(i, j) = "True" /\ Lt(j, i) = "True")
\* 1!1.0 and 2.0 have been compared
C4_Witness ==
    /\ pc = "compared"
    /\ raw[1] = <<"1", "!">> \o Str10
    /\ raw[2] = <<"2", ".", "0">>
    /\ Gt(1, 2) = "True"

\* the place of a version in the chain R.dev0, Ra1, Ra1.post1, R, R.post1
\* (0 when it is none of them)
ChainPlace(v) ==
    IF v.local.has THEN 0
    ELSE IF ~v.pre.has /\ ~v.post.has /\ v.dev = Seg(<<"d", "e", "v">>, 0) THEN 1
    ELSE IF v.dev.has THEN 0
    ELSE IF v.pre = Seg(<<"a">>, 1) /\ ~v.post.has THEN 2
    ELSE IF v.pre = Seg(<<"a">>, 1) /\ v.post = Seg(<<"p", "o", "s", "t">>, 1) THEN 3
    ELSE IF v.pre.has THEN 0
    ELSE IF ~v.post.has THEN 4
    ELSE IF v.post = Seg(<<"p", "o", "s", "t">>, 1) THEN 5
    ELSE 0

\* C5: for a fixed release R, R.dev0 < Ra1 < Ra1.post1 < R < R.post1.
C5_Chain ==
    pc = "compared" =>
        \A i \in BuiltSlots, j \in BuiltSlots :
            (/\ V(i).epoch = V(j).epoch
             /\ V(i).release = V(j).release
             /\ ChainPlace(V(i)) # 0
             /\ ChainPlace(V(j)) = ChainPlace(V(i)) + 1) => Lt(i, j) = "True"

\* a release right-padded with zeros to n components
Padded(r, n) == r \o Zeros(n - Len(r))
PaddedCmp(a, b) ==
    IF Len(a) < Len(b) THEN CmpRelease(Padded(a, Len(b)), b)
    ELSE CmpRelease(a, Padded(b, Len(a)))
SameButRelease(v, w) ==
    /\ v.epoch = w.epoch /\ v.pre = w.pre /\ v.post = w.post
    /\ v.dev = w.dev /\ v.local = w.local

\* C6: with equal epoch, releases of unequal length are ordered as the two
\* sequences are after right-padding the shorter one with zeros.
C6_ReleasePadding ==
    pc = "compared" =>
        \A i \in BuiltSlots, j \in BuiltSlots :
            V(i).epoch = V(j).epoch =>
                /\ PaddedCmp(V(i).release, V(j).release) = "lt" => Lt(i, j) = "True"
                /\ PaddedCmp(V(i).release, V(j).release) = "gt" => Gt(i, j) = "True"
                /\ (PaddedCmp(V(i).release, V(j).release) = "eq" /\ SameButRelease(V(i), V(j)))
                      => Eq(i, j) = "True"

SameButLocal(v, w) ==
    /\ v.epoch = w.epoch /\ v.release = w.release /\ v.pre = w.pre
    /\ v.post = w.post /\ v.dev = w.dev

\* C7: of two valid Versions with the same epoch, release, pre, post and
\* dev, the one without local segment sorts strictly after the one with a
\* local segment; in particular parse("1.0") > parse("1.0+abc").
C7_LocalSentinel ==
    pc = "compared" =>
        /\ \A i \in BuiltSlots, j \in BuiltSlots :
              (SameButLocal(V(i), V(j)) /\ ~V(i).local.has /\ V(j).local.has)
                  => Gt(i, j) = "True"
        /\ (raw[1] = Str10 /\ raw[2] = Str10 \o <<"+", "a", "b", "c">>)
              => (Built(1) /\ Built(2) /\ Gt(1, 2) = "True")

\* C8: Version(raw) returns a Version when raw matches the grammar and
\* raises InvalidVersion when it does not; it raises no other error.
C8_ParserTotality ==
    obj[1] # NotBuilt =>
        /\ valid => obj[1].err = ""
        /\ ~valid => obj[1].err = "InvalidVersion"

\* a call that has returned from lines 319-331
Evaluated(t) == cpc[t] = "evaluate" /\ cpc'[t] = "done"
Unparsable(name) == VersionInit(name).err # ""
HasUnparsable(names) == \E k \in DOMAIN names : Unparsable(names[k])
Parsable(names) == SelectSeq(names, LAMBDA name : ~Unparsable(name))

\* C9, as the specification words it: release names that fail to parse are
\* dropped one by one, so the update check returns what it returns for the
\* same names without the unparsable ones.
C9_DroppedOneByOne ==
    [][\A t \in Threads :
          Evaluated(t) =>
              result'[t] = CheckDecision(Parsable(releases[t]), current, isPy3)]_vars

\* C9, as the code has it: a release name that fails to parse is not dropped
\* on its own; the exception leaves the list comprehension, is caught by
\* "except Exception", and the update check returns None whatever the other
\* names are.
C9_UnparsableGivesNone ==
    [][\A t \in Threads :
          (Evaluated(t) /\ HasUnparsable(releases[t])) => result'[t] = ReturnNone]_vars
\* the index held a newer release next to an unparsable name, and the call
\* returned None
C9_Witness ==
    /\ cpc[1] = "done"
    /\ current = Str100
    /\ releases[1] = <<Str200, StrJunk>>
    /\ result[1] = ReturnNone

ReturnedVersion(t) == VersionInit(result[t].version).version
StableCurrent ==
    /\ VersionInit(current).err = ""
    /\ ~IsPrerelease(VersionInit(current).version)
    /\ ~IsDevrelease(VersionInit(current).version)

\* C10: when the current version is neither a pre-release nor a dev-release,
\* the update check never returns a pre-release or a dev-release, and with
\* current 1.0.0 and the only release 2.0.0a1 it returns None.
C10_StableOnly ==
    \A t \in Threads :
        (cpc[t] = "done" /\ StableCurrent) =>
            /\ ~result[t].none =>
                  /\ ~IsPrerelease(ReturnedVersion(t))
                  /\ ~IsDevrelease(ReturnedVersion(t))
            /\ (current = Str100 /\ releases[t] = <<Str200a1>>) => result[t] = ReturnNone
\* current 1.0.0, the index holds 2.0.0a1 and 1.1.0, and the call returned
\* 1.1.0
C10_Witness ==
    /\ cpc[1] = "done"
    /\ current = Str100
    /\ releases[1] = <<Str200a1, Str110>>
    /\ result[1] = Return(Str110, TRUE)

\* the candidates that remain: every release of the index, parsed, without
\* the pre-releases and dev-releases when the current version is neither
Stable(v) == ~IsPrerelease(v) /\ ~IsDevrelease(v)
Remaining(names, cur) ==
    SelectSeq([k \in DOMAIN names |-> VersionInit(names[k])],
              LAMBDA o : Stable(VersionInit(cur).version) => Stable(o.version))
IsMaximum(m, rem, py) ==
    \A k \in DOMAIN rem : Compare(m.key, rem[k].key, "ge", py) = "True"
\* what the update check owes for a maximum m of the remaining candidates
LatestOrNone(m, cur, res, py) ==
    IF Compare(cur.key, m.key, "ge", py) = "True" THEN res = ReturnNone
    ELSE /\ ~res.none
         /\ res.version = VersionStr(m.version)
         /\ Compare(m.key, cur.key, "gt", py) = "True"
Owed(rem, cur, res, py) ==
    IF rem = <<>> THEN res = ReturnNone
    ELSE \E k \in DOMAIN rem :
            IsMaximum(rem[k], rem, py) /\ LatestOrNone(rem[k], cur, res, py)

\* C11: the update check returns None when no candidate remains or when
\* current >= latest, the maximum of the remaining candidates; otherwise it
\* returns latest, which is greater than current and >= every remaining
\* candidate.
C11_LatestOrNone ==
    [][\A t \in Threads :
          (Evaluated(t) /\ ~HasUnparsable(releases[t]) /\ ~Unparsable(current)) =>
              Owed(Remaining(releases[t], current), VersionInit(current),
                   result'[t], isPy3)]_vars

\* the first two components of a release
Prefix2(r) == IF Len(r) <= 2 THEN r ELSE <<r[1], r[2]>>

\* C12: when the update check returns (latest, flag), flag is true exactly
\* when the first two release components of latest differ from those of
\* current; current 1.0.0 with 1.0.0, 1.1.0, 2.0.0 gives (2.0.0, true) and
\* current 1.0.1 with 1.0.0, 1.0.2 gives (1.0.2, false).
C12_MajorMinorFlag ==
    \A t \in Threads :
        cpc[t] = "done" =>
            /\ ~result[t].none =>
                  (result[t].flag <=>
                      Prefix2(ReturnedVersion(t).release)
                          # Prefix2(VersionInit(current).version.release))
            /\ (current = Str100 /\ releases[t] = <<Str100, Str110, Str200>>)
                  => result[t] = Return(Str200, TRUE)
            /\ (current = Str101 /\ releases[t] = <<Str100, Str102>>)
                  => result[t] = Return(Str102, FALSE)
\* current 1.0.1, the index holds 1.0.0 and 1.1.0, and the call returned
\* 1.1.0 with the flag set
C12_Witness ==
    /\ cpc[1] = "done"
    /\ current = Str101
    /\ releases[1] = <<Str100, Str110>>
    /\ result[1] = Return(Str110, TRUE)

\* what check_new_package_available may return: None, or a version and a flag
ProperReturn(r) == r.none \/ VersionInit(r.version).err = ""
\* the index could not be read, or lines 319-329 cannot succeed
FailureIn(t) ==
    \/ cpc[t] = "fetch"
    \/ /\ cpc[t] = "evaluate"
       /\ (HasUnparsable(releases[t]) \/ Unparsable(current) \/ releases[t] = <<>>)

\* C13: check_new_package_available never propagates an error: a failure of
\* the fetch, of parsing a candidate or the current version, or an empty
\* candidate list makes it return None; and the thread that called it
\* absorbs every exception.
C13_NeverPropagates ==
    [][\A t \in Threads :
          /\ (cpc'[t] = "done" /\ cpc[t] # "done") =>
                /\ ProperReturn(result'[t])
                /\ FailureIn(t) => result'[t] = ReturnNone
          /\ task'[t] # "died"]_vars
\* __version__ could not be parsed while the index held 2.0.0; the call
\* returned None and the thread ended
C13_Witness ==
    /\ task[1] = "ended"
    /\ current = StrJunk
    /\ releases[1] = <<Str200>>
    /\ result[1] = ReturnNone

\* C14: hashing is consistent with equality: a == b implies
\* hash(a) == hash(b), and versions with the same key have the same hash.
C14_HashConsistent ==
    pc = "hashed" =>
        \A i \in BuiltSlots, j \in BuiltSlots :
            (Eq(i, j) = "True" \/ obj[i].key = obj[j].key) => hashes[i] = hashes[j]
\* 1.0a1 and 1.0b1 compare equal and have been hashed
C14_Witness ==
    /\ pc = "hashed"
    /\ raw[1] = Str10 \o <<"a", "1">>
    /\ raw[2] = Str10 \o <<"b", "1">>
    /\ Eq(1, 2) = "True"
    /\ hashes[1] = hashes[2]

StrPost == <<"p", "o", "s", "t">>
\* the inputs written with a bare "-N" that is a post-release, and those of
\* them that have nothing else after the release
ImplicitInputs ==
    {c \in HeadInputs \cup TailInputs :
        c.post.tag = 0 /\ c.post.num >= 0 /\ ImplicitIsPost(c)}
BareImplicit(c) == c.pre = NoGroup /\ c.dev = NoGroup /\ c.local = 1

\* C15: a release followed by a bare "-N" parses to a Version whose post
\* segment is ("post", N), for every N >= 0, and it has the segments of the
\* same string written with ".postN".
C15_ImplicitPost ==
    pc = "compared" =>
        \A c \in ImplicitInputs :
            raw[1] = Build(c, FALSE) =>
                /\ BareImplicit(c) => Built(1)
                /\ Built(1) =>
                      /\ V(1).post = Seg(StrPost, c.post.num)
                      /\ Built(2)
                      /\ V(2) = V(1)
\* 1.0-0 and 1.0.post0 have been parsed
C15_Witness ==
    /\ pc = "compared"
    /\ raw[1] = Str10 \o <<"-", "0">>
    /\ raw[2] = Str10 \o <<".", "p", "o", "s", "t", "0">>
    /\ Built(1)
    /\ V(1).post = Seg(StrPost, 0)
    /\ V(2) = V(1)

\* the inputs with a pre-release tag and no number for it, and those of them
\* that have nothing else after the release
BarePreInputs ==
    {c \in HeadInputs \cup TailInputs :
        /\ c.pre.tag # 0 /\ c.pre.num < 0
        /\ ~(c.post.tag = 0 /\ c.post.num >= 0 /\ ~ImplicitIsPost(c))}
OnlyPre(c) == c.post = NoGroup /\ c.dev = NoGroup /\ c.local = 1
WithPreZero(c) == [c EXCEPT !.pre.num = 0]

\* C16: a pre-release tag without number parses with the number 0: the
\* Version has the segments of the same string written with an explicit 0.
C16_PreDefault ==
    pc = "compared" =>
        \A c \in BarePreInputs :
            raw[1] = Build(c, FALSE) =>
                /\ OnlyPre(c) => Built(1)
                /\ Built(1) =>
                      /\ V(1).pre = Seg(Normalize(PreTags[c.pre.tag]), 0)
                      /\ V(1) = VersionInit(Build(WithPreZero(c), FALSE)).version
\* 1.0rc has been parsed
C16_Witness ==
    /\ pc = "compared"
    /\ raw[1] = Str10 \o <<"r", "c">>
    /\ Built(1)
    /\ V(1).pre = Seg(<<"r", "c">>, 0)

\* the inputs with nothing after the release but a tagged post-release
\* without number, or but the dev tag without number
BarePostInputs ==
    {c \in HeadInputs \cup TailInputs :
        /\ c.post.tag # 0 /\ c.post.num < 0
        /\ c.pre = NoGroup /\ c.dev = NoGroup /\ c.local = 1}
BareDevInputs ==
    {c \in HeadInputs \cup TailInputs :
        /\ c.dev.tag # 0 /\ c.dev.num < 0
        /\ c.pre = NoGroup /\ c.post = NoGroup /\ c.local = 1}

\* C17: a tagged post-release (post, rev, r) or the dev tag without number
\* parses, and the number of the post respectively dev segment is 0.
C17_PostDevDefault ==
    pc = "compared" =>
        /\ \A c \in BarePostInputs :
              raw[1] = Build(c, FALSE) => (Built(1) /\ V(1).post = Seg(StrPost, 0))
        /\ \A c \in BareDevInputs :
              raw[1] = Build(c, FALSE) => (Built(1) /\ V(1).dev = Seg(<<"d", "e", "v">>, 0))

\* the raw string is quoted in an argument of the exception
RECURSIVE OccursIn(_, _)
OccursIn(part, whole) ==
    IF Len(part) > Len(whole) THEN FALSE
    ELSE IF SubSeq(whole, 1, Len(part)) = part THEN TRUE
    ELSE OccursIn(part, Tail(whole))
CarriesInput(o, input) == \E k \in DOMAIN o.args : OccursIn(<<"'">> \o input \o <<"'">>, o.args[k])
\* one of the arguments of the exception is a number
CarriesOffset(o) == \E k \in DOMAIN o.args : o.args[k] # <<>> /\ IsDigitStr(o.args[k])

\* C18, as the specification words it: when the raw string does not match
\* the grammar, the error carries the offending input and the character
\* offset at which the match failed.
C18_InputAndOffset ==
    (~valid /\ obj[1] # NotBuilt) =>
        /\ obj[1].err = "InvalidVersion"
        /\ CarriesInput(obj[1], raw[1])
        /\ CarriesOffset(obj[1])

\* C18, as the code has it: when the raw string does not match the grammar,
\* InvalidVersion carries one argument, the message "Invalid version: '<raw>'"
\* that quotes the offending input, and no offset.
C18_InputOnly ==
    (~valid /\ obj[1] # NotBuilt) =>
        /\ obj[1].err = "InvalidVersion"
        /\ Len(obj[1].args) = 1
        /\ CarriesInput(obj[1], raw[1])
        /\ ~CarriesOffset(obj[1])
\* Version("1.0x") has raised InvalidVersion
C18_Witness ==
    /\ ~valid
    /\ raw[1] = Str10 \o <<"x">>
    /\ obj[1].err = "InvalidVersion"
    /\ CarriesInput(obj[1], raw[1])

\* the order of two local segments, part by part: a str before an int,
\* ints by value, strs by their characters, a proper prefix first
RECURSIVE LocalCmp(_, _)
LocalCmp(p, q) ==
    IF p = <<>> /\ q = <<>> THEN "eq"
    ELSE IF p = <<>> THEN "lt"
    ELSE IF q = <<>> THEN "gt"
    ELSE IF Head(p) = Head(q) THEN LocalCmp(Tail(p), Tail(q))
    ELSE IF Head(p).isint /\ Head(q).isint THEN CmpInt(Head(p).n, Head(q).n)
    ELSE IF ~Head(p).isint /\ ~Head(q).isint THEN CmpStr(Head(p).s, Head(q).s)
    ELSE IF Head(q).isint THEN "lt" ELSE "gt"

\* C19: two Versions with a local segment that agree on epoch, release, pre,
\* post and dev are ordered as their full local sequences are, part by part.
C19_LocalOrder ==
    pc = "compared" =>
        \A i \in BuiltSlots, j \in BuiltSlots :
            (SameButLocal(V(i), V(j)) /\ V(i).local.has /\ V(j).local.has) =>
                /\ LocalCmp(V(i).local.parts, V(j).local.parts) = "lt" => Lt(i, j) = "True"
                /\ LocalCmp(V(i).local.parts, V(j).local.parts) = "gt" => Gt(i, j) = "True"
                /\ LocalCmp(V(i).local.parts, V(j).local.parts) = "eq" => Eq(i, j) = "True"

\* a before b before rc
TagRank(l) == IF l = <<"a">> THEN 1 ELSE IF l = <<"b">> THEN 2 ELSE 3

\* C20: for Versions with the same epoch and release the pre-release tag
\* takes part in the order: any a sorts before any b, and any b before any
\* rc, whatever their numbers (1.0a2 < 1.0b1 < 1.0rc0).
C20_PreTagOrder ==
    pc = "compared" =>
        \A i \in BuiltSlots, j \in BuiltSlots :
            (/\ V(i).epoch = V(j).epoch /\ V(i).release = V(j).release
             /\ V(i).pre.has /\ V(j).pre.has
             /\ TagRank(V(i).pre.l) < TagRank(V(j).pre.l)) => Lt(i, j) = "True"

\* C21: two valid Versions that compare == (their keys are equal) have
\* identical segments and identical canonical strings.
C21_EqualMeansIdentical ==
    pc = "compared" =>
        \A i \in BuiltSlots, j \in BuiltSlots :
            (Eq(i, j) = "True" \/ obj[i].key = obj[j].key) =>
                /\ V(i) = V(j)
                /\ VersionStr(V(i)) = VersionStr(V(j))

\* the integers written between the dots at the head of a string, after
\* its epoch
AfterEpoch(s) ==
    IF \E k \in DOMAIN s : s[k] = "!"
    THEN SubSeq(s, Min({k \in DOMAIN s : s[k] = "!"}) + 1, Len(s))
    ELSE s
RECURSIVE WrittenInts(_, _, _)
WrittenInts(s, num, acc) ==
    IF s # <<>> /\ IsDigit(Head(s)) THEN WrittenInts(Tail(s), Append(num, Head(s)), acc)
    ELSE IF Len(s) >= 2 /\ Head(s) = "." /\ IsDigit(s[2])
    THEN WrittenInts(Tail(s), <<>>, Append(acc, StrToInt(num)))
    ELSE Append(acc, StrToInt(num))
WrittenRelease(s) == WrittenInts(AfterEpoch(s), <<>>, <<>>)

PlainFinal(v) == ~v.pre.has /\ ~v.post.has /\ ~v.dev.has /\ ~v.local.has

\* C23: a Version with a pre segment, with or without post and dev, sorts
\* strictly before the plain final release of the same epoch and release;
\* a Version with a post segment sorts strictly after a Version of the same
\* epoch, release and pre without one.
C23_FinalBetween ==
    pc = "compared" =>
        \A i \in BuiltSlots, j \in BuiltSlots :
            (V(i).epoch = V(j).epoch /\ V(i).release = V(j).release) =>
                /\ (V(i).pre.has /\ PlainFinal(V(j))) =>
                       (Lt(i, j) = "True" /\ Gt(j, i) = "True")
                /\ (V(i).pre = V(j).pre /\ ~V(i).post.has /\ V(j).post.has) =>
                       (Lt(i, j) = "True" /\ Gt(j, i) = "True")
\* a pre-release with post and dev has been compared with its final
\* release, and found smaller
C23_Witness ==
    /\ pc = "compared"
    /\ V(1).pre.has /\ V(1).post.has /\ V(1).dev.has
    /\ Built(2) /\ PlainFinal(V(2))
    /\ V(1).epoch = V(2).epoch /\ V(1).release = V(2).release
    /\ Lt(1, 2) = "True"

\* C24: a Version with a dev segment sorts strictly before the Version of
\* the same epoch, release, pre and post without one.
C24_DevBefore ==
    pc = "compared" =>
        \A i \in BuiltSlots, j \in BuiltSlots :
            (/\ V(i).epoch = V(j).epoch /\ V(i).release = V(j).release
             /\ V(i).pre = V(j).pre /\ V(i).post = V(j).post
             /\ V(i).dev.has /\ ~V(j).dev.has) =>
                (Lt(i, j) = "True" /\ Gt(j, i) = "True")
\* the dev-release of a pre-release has been compared with that
\* pre-release, and found smaller
C24_Witness ==
    /\ pc = "compared"
    /\ Built(1) /\ Built(2)
    /\ V(1).dev.has /\ ~V(2).dev.has
    /\ V(1).pre.has /\ V(1).pre = V(2).pre /\ V(1).post = V(2).post
    /\ V(1).epoch = V(2).epoch /\ V(1).release = V(2).release
    /\ Lt(1, 2) = "True"

\* what a string carries after its "+", and the tokens of that: split on
\* ".", "_" and "-", digits as integers, the others lowercased
WrittenLocal(s) == SubSeq(s, Min({k \in DOMAIN s : s[k] = "+"}) + 1, Len(s))
WrittenTokens(s) ==
    LET split == SplitLocal(WrittenLocal(s), <<>>)
    IN  [k \in DOMAIN split |->
            IF IsDigitStr(split[k]) THEN IntPart(StrToInt(split[k]))
            ELSE StrPart(LowerStr(split[k]))]

\* C25: a valid raw string with a "+local" part parses to a Version whose
\* local segment is present and holds the tokens of that part, a leading
\* token 0 included, and Version.local is these tokens joined by dots.
C25_LocalTokens ==
    (obj[1] # NotBuilt /\ valid /\ \E k \in DOMAIN raw[1] : raw[1][k] = "+") =>
        /\ Built(1)
        /\ V(1).local = [has |-> TRUE, parts |-> WrittenTokens(raw[1])]
        /\ VersionLocal(V(1)) =
               JoinDot([k \in DOMAIN WrittenTokens(raw[1]) |->
                           PartStr(WrittenTokens(raw[1])[k])])

\* C26: the latch is no mutex: the step that tests it changes nothing, the
\* latch is set and the statistics thread started by a later step of the
\* caller, whatever other callers have done since its test.
C26_LatchAdvisory ==
    [][\A t \in Threads :
          /\ (cpc[t] = "gate" /\ cpc'[t] # "gate") =>
                (checked' = checked /\ statsStarted' = statsStarted)
          /\ (cpc[t] = "latch" /\ cpc'[t] # "latch") =>
                (checked' /\ statsStarted' = statsStarted + 1 /\ cpc'[t] = "fetch")]_vars
\* two first-time callers with only_once=True have both passed the test,
\* both started a statistics thread and both fetch
C26_Witness ==
    /\ once[1] /\ once[2]
    /\ cpc[1] = "fetch" /\ cpc[2] = "fetch"
    /\ statsStarted = 2
    /\ checked

AllParsed(names) == [k \in DOMAIN names |-> VersionInit(names[k])]

\* C28: when the current version is a pre-release or a dev-release, no
\* candidate is dropped: the update check answers for the maximum of all
\* parsed candidates, pre-releases and dev-releases among them.
C28_PreCurrentKeepsAll ==
    [][\A t \in Threads :
          (/\ Evaluated(t)
           /\ ~HasUnparsable(releases[t]) /\ ~Unparsable(current)
           /\ ~Stable(VersionInit(current).version)) =>
              Owed(AllParsed(releases[t]), VersionInit(current), result'[t], isPy3)]_vars

\* a newer daemon has been started since d was
Superseded(d) == \E e \in Spawned : e > d
\* d sends a ping; d tests the stop signal
SendsPing(d) == dpc[d] = "ping" /\ dpc'[d] # "ping" /\ devTask
TestsSignal(d) == dpc[d] = "test" /\ dpc'[d] \in {"loop", "stop"}

\* C29: once unregister() and a new register() have started a new daemon,
\* the daemon of the earlier register() sends no ping and tests no stop
\* signal any more: one daemon at most is at work in the _daemon loop.
C29_OneDaemon ==
    [][\A d \in Daemons : Superseded(d) => (~SendsPing(d) /\ ~TestsSignal(d))]_vars

\* the caller has returned from unregister(), its last call so far
Unregistered == wpc = "idle" /\ last = "unregister"

\* C30: when unregister() has returned, the exit event is set and the task
\* is cleared; and if no register() follows, every daemon leaves the
\* _daemon loop in the end.
C30_DaemonLeaves ==
    /\ [](Unregistered => (exitEvent /\ ~devTask))
    /\ <>[]Unregistered => <>[](\A d \in Daemons : ~InLoop(d))
\* a daemon had been started, unregister() has returned, and the daemon has
\* left the loop through the wait that returned True
C30_Witness ==
    /\ Unregistered
    /\ exitEvent /\ ~devTask
    /\ dpc[1] = "exited"
    /\ dpc[2] = "none"
====
